---- MODULE Spec2Model ----
(***************************************************************************)
(* Model of RedditContentCleaner.py: the menu loop of main(), the eight    *)
(* removal commands (count pass, processing pass, summary) and the per-item*)
(* handlers process_comment / process_post with backup_content,            *)
(* download_media and should_exclude_content.                              *)
(*                                                                         *)
(* Strings are sequences of one-character strings so that str.lower() and  *)
(* the `in` substring test are computed, not assumed.  Every remote or     *)
(* file-system call that can raise has a nondeterministic outcome.  The    *)
(* calls a command issues are recorded, in order, in `calls`.              *)
(***************************************************************************)
EXTENDS Integers, Sequences, FiniteSets, TLC

VARIABLES
    config,              \* self.config: dry_run, backup_enabled, excluded_subs, excluded_keywords
    comments,            \* listing reddit.user.me().comments.new(), newest first
    posts,               \* listing reddit.user.me().submissions.new(), newest first
    cmd,                 \* the command chosen in the menu, with its parameter
    pc,                  \* position of the program
    idx,                 \* number of items of the current listing already iterated
    total,               \* total given to tqdm (total_comments / total_posts / total_items)
    pbar,                \* progress units on the tqdm bar (pbar.n)
    processed_comments,  \* processed / processed_comments
    processed_posts,     \* processed / processed_posts
    removed_comments,    \* removed / removed_comments
    removed_posts,       \* removed / removed_posts
    calls,               \* the calls issued so far by the command, in order
    summary              \* what the final print reports

vars == <<config, comments, posts, cmd, pc, idx, total, pbar, processed_comments,
          processed_posts, removed_comments, removed_posts, calls, summary>>

-----------------------------------------------------------------------------
(* Bounds *)

MaxItems == 3        \* most items on the account, comments and posts together

-----------------------------------------------------------------------------
(* Strings *)

LowerChar(ch) ==
    CASE ch = "A" -> "a"
      [] ch = "B" -> "b"
      [] ch = ".PNG" -> ".png"
      [] OTHER -> ch

\* str.lower()
lower(s) == [i \in DOMAIN s |-> LowerChar(s[i])]

\* needle in hay
contains(needle, hay) ==
    \E i \in 0..(Len(hay) - Len(needle)) : SubSeq(hay, i + 1, i + Len(needle)) = needle

\* the extensions download_media recognises; one token stands for one extension
MediaExtensions == {".jpg", ".jpeg", ".png", ".gif", ".mp4"}

\* any(url.endswith(ext) for ext in [...]) on url = post.url.lower()
has_media_extension(url) ==
    Len(url) > 0 /\ lower(url)[Len(url)] \in MediaExtensions

-----------------------------------------------------------------------------
(* The account's content.  created_utc and the clock are in days. *)

NowUtc == 10

CommentPool ==
    { [id |-> "c1", kind |-> "comment", subreddit |-> <<"a">>, score |-> -1,
       created_utc |-> 8, body |-> <<"A", "b">>, replies |-> 0],
      [id |-> "c2", kind |-> "comment", subreddit |-> <<"b">>, score |-> 1,
       created_utc |-> 9, body |-> <<"b">>, replies |-> 0],
      [id |-> "c3", kind |-> "comment", subreddit |-> <<"A">>, score |-> 0,
       created_utc |-> 7, body |-> <<>>, replies |-> 1] }

PostPool ==
    { [id |-> "p1", kind |-> "post", subreddit |-> <<"a">>, score |-> 0,
       created_utc |-> 9, title |-> <<"b">>, selftext |-> <<>>, url |-> <<"x", ".PNG">>],
      [id |-> "p2", kind |-> "post", subreddit |-> <<"b">>, score |-> 5,
       created_utc |-> 8, title |-> <<"a">>, selftext |-> <<"A", "b">>, url |-> <<"x">>],
      [id |-> "p3", kind |-> "post", subreddit |-> <<"A">>, score |-> 1,
       created_utc |-> 7, title |-> <<"a">>, selftext |-> <<"a">>, url |-> <<"x", ".jpg">>] }

ItemIds == {i.id : i \in CommentPool \cup PostPool}

\* a listing: distinct items, newest first
Listings(pool) ==
    { s \in UNION { [1..n -> pool] : n \in 0..MaxItems } :
        \A i, j \in DOMAIN s : i < j => s[i].created_utc > s[j].created_utc }

-----------------------------------------------------------------------------
(* Configuration and commands *)

\* config.json: no exclusion rule at all, or one excluded subreddit and one excluded keyword
Configs ==
    { c \in [ dry_run : BOOLEAN, backup_enabled : BOOLEAN,
              excluded_subs : { {}, {<<"a">>} },
              excluded_keywords : { {}, {<<"B">>} } ] :
        (c.excluded_subs = {}) <=> (c.excluded_keywords = {}) }

CommentCommands == {"remove_old_comments", "remove_negative_karma", "remove_low_engagement"}
PostCommands == {"remove_all_posts", "remove_old_posts", "remove_low_karma_posts"}
BothCommands == {"remove_by_subreddit", "remove_by_keyword"}

NoCommand == [name |-> "none", param |-> 0]

Commands ==
    [name : {"remove_old_comments", "remove_old_posts"}, param : {1}]
    \cup [name : {"remove_negative_karma", "remove_low_engagement", "remove_all_posts"}, param : {0}]
    \cup [name : {"remove_low_karma_posts"}, param : {1}]
    \cup [name : {"remove_by_subreddit"}, param : {<<"A">>}]
    \cup [name : {"remove_by_keyword"}, param : {<<"B">>}]

-----------------------------------------------------------------------------
(* Calls.  A call is recorded when it is issued; ok says whether it returned *)
(* (TRUE) or raised (FALSE).                                                *)

Call(op, id, ok) == [op |-> op, id |-> id, ok |-> ok]

\* if progress_bar: progress_bar.update(1)   -- a tqdm bar is truthy iff its total > 0
guarded_update(item) ==
    IF total > 0 THEN <<Call("pbar.update", item.id, TRUE)>> ELSE <<>>

\* pbar.update(1) in the else branch of a command's loop
direct_update(item) == <<Call("pbar.update", item.id, TRUE)>>

\* backup_content: the append to deleted_content.txt, skipped when backup is disabled
backup_content(content, bOk) ==
    IF config.backup_enabled THEN <<Call("backup", content.id, bOk)>> ELSE <<>>

\* download_media: the request is made only for a media url; any failure is swallowed
download_media(post, mOk) ==
    <<Call("download_media", post.id, TRUE)>>
    \o (IF has_media_extension(post.url)
        THEN <<Call("requests.get", post.id, mOk)>>
             \o (IF mOk THEN <<Call("media.write", post.id, TRUE)>> ELSE <<>>)
        ELSE <<>>)

\* the text should_exclude_content searches
content_text(content) ==
    IF content.kind = "post" THEN content.selftext ELSE content.body

should_exclude_content(content) ==
    \/ content.subreddit \in config.excluded_subs
    \/ \E keyword \in config.excluded_keywords :
          contains(lower(keyword), lower(content_text(content)))

\* every failed call raises, the request of download_media included
raises_including_media(call) == ~call.ok

\* the calls that propagate an exception to their caller when they fail
\* (download_media catches the failure of its own request)
raises(call) == ~call.ok /\ call.op \in {"backup", "edit", "delete"}

\* position of the first call of cs that raises, 0 if none does
first_raise(cs) ==
    IF \E i \in DOMAIN cs : raises(cs[i])
    THEN CHOOSE i \in DOMAIN cs : raises(cs[i]) /\ \A j \in 1..(i - 1) : ~raises(cs[j])
    ELSE 0

\* a try block whose body goes on after a call raised
try_except_swallowing(body, handler) ==
    IF first_raise(body) = 0 THEN body
    ELSE SubSeq(body, 1, first_raise(body)) \o handler
         \o SubSeq(body, first_raise(body) + 1, Len(body))

\* a try block with no except branch: the exception leaves the handler
try_except_propagating(body, handler) ==
    IF first_raise(body) = 0 THEN body
    ELSE SubSeq(body, 1, first_raise(body))

\* a try block that runs its body a second time after a failure
try_except_retrying(body, handler) ==
    IF first_raise(body) = 0 THEN body
    ELSE SubSeq(body, 1, first_raise(body)) \o handler
         \o SubSeq(body, 1, first_raise(body)) \o handler

\* try: body / except Exception: handler -- the body runs up to its first raising
\* call, and the handler runs only if there is one
try_except(body, handler) ==
    IF first_raise(body) = 0 THEN body
    ELSE SubSeq(body, 1, first_raise(body)) \o handler

\* the except branch of process_comment / process_post
except_branch(item) ==
    <<Call("logger.error", item.id, TRUE)>> \o guarded_update(item)

\* an end of the try block that logs the item only when the progress bar is truthy
success_tail_under_progress_test(item) ==
    IF total > 0
    THEN <<Call("logger.info", item.id, TRUE), Call("pbar.update", item.id, TRUE)>>
    ELSE <<>>

\* the end of the try block of process_comment / process_post
success_tail(item) ==
    <<Call("logger.info", item.id, TRUE)>> \o guarded_update(item)

\* a comment deleted before it is overwritten
mutate_comment_delete_first(comment, eOk, dOk) ==
    <<Call("delete", comment.id, dOk), Call("edit", comment.id, eOk),
      Call("sleep", comment.id, TRUE)>>

\* comment.edit(...); comment.delete(); time.sleep(delay)
mutate_comment(comment, eOk, dOk) ==
    <<Call("edit", comment.id, eOk), Call("delete", comment.id, dOk),
      Call("sleep", comment.id, TRUE)>>

\* process_comment with the backup written after the mutation
process_comment_backup_last(comment, bOk, eOk, dOk) ==
    IF should_exclude_content(comment) THEN <<>>
    ELSE try_except(
            (IF ~config.dry_run THEN mutate_comment(comment, eOk, dOk) ELSE <<>>)
            \o backup_content(comment, bOk)
            \o success_tail(comment),
            except_branch(comment))

\* process_comment without the dry_run test
process_comment_ignoring_dry_run(comment, bOk, eOk, dOk) ==
    IF should_exclude_content(comment) THEN <<>>
    ELSE try_except(
            backup_content(comment, bOk)
            \o mutate_comment(comment, eOk, dOk)
            \o success_tail(comment),
            except_branch(comment))

\* process_comment without the exclusion test
process_comment_without_exclusion(comment, bOk, eOk, dOk) ==
    try_except(
        backup_content(comment, bOk)
        \o (IF ~config.dry_run THEN mutate_comment(comment, eOk, dOk) ELSE <<>>)
        \o success_tail(comment),
        except_branch(comment))

\* process_comment with the backup written only when the run is not a dry run
process_comment_backup_only_real(comment, bOk, eOk, dOk) ==
    IF should_exclude_content(comment) THEN <<>>
    ELSE try_except(
            (IF ~config.dry_run
             THEN backup_content(comment, bOk) \o mutate_comment(comment, eOk, dOk)
             ELSE <<>>)
            \o success_tail(comment),
            except_branch(comment))

\* the calls of process_comment(comment, pbar)
process_comment(comment, bOk, eOk, dOk) ==
    IF should_exclude_content(comment) THEN <<>>
    ELSE try_except(
            backup_content(comment, bOk)
            \o (IF ~config.dry_run THEN mutate_comment(comment, eOk, dOk) ELSE <<>>)
            \o success_tail(comment),
            except_branch(comment))

\* the mutation of a post without the test of its self-text
mutate_post_always_edit(post, eOk, dOk) ==
    <<Call("edit", post.id, eOk), Call("delete", post.id, dOk), Call("sleep", post.id, TRUE)>>

\* if post.selftext: post.edit(...); then post.delete(); time.sleep(delay)
mutate_post(post, eOk, dOk) ==
    (IF post.selftext # <<>> THEN <<Call("edit", post.id, eOk)>> ELSE <<>>)
    \o <<Call("delete", post.id, dOk), Call("sleep", post.id, TRUE)>>

\* process_post with the download made only when the run is not a dry run
process_post_media_only_real(post, bOk, mOk, eOk, dOk) ==
    IF should_exclude_content(post) THEN <<>>
    ELSE try_except(
            backup_content(post, bOk)
            \o (IF ~config.dry_run
                THEN download_media(post, mOk) \o mutate_post(post, eOk, dOk)
                ELSE <<>>)
            \o success_tail(post),
            except_branch(post))

\* the calls of process_post(post, pbar)
process_post(post, bOk, mOk, eOk, dOk) ==
    IF should_exclude_content(post) THEN <<>>
    ELSE try_except(
            backup_content(post, bOk)
            \o download_media(post, mOk)
            \o (IF ~config.dry_run THEN mutate_post(post, eOk, dOk) ELSE <<>>)
            \o success_tail(post),
            except_branch(post))

-----------------------------------------------------------------------------
(* Selection: the condition of each command's loop *)

\* a cutoff one day too late, which lets an item of age exactly `days` through
cutoff_off_by_one(days) == NowUtc - days + 1

\* cutoff = now - timedelta(days=days)
cutoff(days) == NowUtc - days

selects_comment(c, comment) ==
    CASE c.name = "remove_old_comments" -> comment.created_utc < cutoff(c.param)
      [] c.name = "remove_negative_karma" -> comment.score < 0
      [] c.name = "remove_low_engagement" -> comment.score <= 1 /\ comment.replies = 0
      [] c.name = "remove_by_subreddit" -> lower(comment.subreddit) = lower(c.param)
      [] c.name = "remove_by_keyword" -> contains(lower(c.param), lower(comment.body))
      [] OTHER -> FALSE

selects_post(c, post) ==
    CASE c.name = "remove_all_posts" -> TRUE
      [] c.name = "remove_old_posts" -> post.created_utc < cutoff(c.param)
      [] c.name = "remove_low_karma_posts" -> post.score < c.param
      [] c.name = "remove_by_subreddit" -> lower(post.subreddit) = lower(c.param)
      [] c.name = "remove_by_keyword" ->
            \/ contains(lower(c.param), lower(post.title))
            \/ contains(lower(c.param), lower(post.selftext))
      [] OTHER -> FALSE

\* the commands that keep a `removed` counter for comments / posts
counts_removed_comments(c) ==
    c.name \in {"remove_negative_karma", "remove_low_engagement",
                "remove_by_subreddit", "remove_by_keyword"}

counts_removed_posts(c) ==
    c.name \in {"remove_old_posts", "remove_low_karma_posts",
                "remove_by_subreddit", "remove_by_keyword"}

\* a comment loop that hands every comment to process_comment
comment_iteration_unselected(c, comment, bOk, eOk, dOk) ==
    process_comment(comment, bOk, eOk, dOk)

\* the calls of one iteration of a comment loop
comment_iteration(c, comment, bOk, eOk, dOk) ==
    IF selects_comment(c, comment)
    THEN process_comment(comment, bOk, eOk, dOk)
    ELSE direct_update(comment)

\* the calls of one iteration of a post loop
post_iteration(c, post, bOk, mOk, eOk, dOk) ==
    IF selects_post(c, post)
    THEN process_post(post, bOk, mOk, eOk, dOk)
    ELSE direct_update(post)

\* an except branch that logs the error and raises it again
propagates_after_error_log(cs) ==
    cs # <<>> /\ \E i \in DOMAIN cs : cs[i].op = "logger.error"

\* an exception leaves the handler: its last call raised and no except branch ran
propagates(cs) == cs # <<>> /\ raises(cs[Len(cs)])

\* number of pbar.update(1) calls in a sequence of calls
updates(cs) == Cardinality({i \in DOMAIN cs : cs[i].op = "pbar.update"})


-----------------------------------------------------------------------------
(* The state machine *)

Init ==
    /\ config \in Configs
    /\ comments \in Listings(CommentPool)
    /\ posts \in Listings(PostPool)
    /\ Len(comments) + Len(posts) <= MaxItems
    /\ cmd = NoCommand
    /\ pc = "menu"
    /\ idx = 0
    /\ total = 0
    /\ pbar = 0
    /\ processed_comments = 0
    /\ processed_posts = 0
    /\ removed_comments = 0
    /\ removed_posts = 0
    /\ calls = <<>>
    /\ summary = <<>>

\* menu choice 10: cleaner.config['dry_run'] = not cleaner.config['dry_run']
ToggleDryRun ==
    /\ pc = "menu"
    /\ config' = [config EXCEPT !.dry_run = ~config.dry_run]
    /\ UNCHANGED <<comments, posts, cmd, pc, idx, total, pbar, processed_comments,
                   processed_posts, removed_comments, removed_posts, calls, summary>>

\* menu choices 1-8: a command starts with its counting pass
StartCommand ==
    /\ pc = "menu"
    /\ \E c \in Commands :
          /\ cmd' = c
          /\ pc' = IF c.name \in PostCommands THEN "count_posts" ELSE "count_comments"
    /\ UNCHANGED <<config, comments, posts, idx, total, pbar, processed_comments,
                   processed_posts, removed_comments, removed_posts, calls, summary>>

\* _get_comment_count: the length of the listing, or 0 when the listing raises
CountComments ==
    /\ pc = "count_comments"
    /\ \E ok \in BOOLEAN :
          /\ total' = total + (IF ok THEN Len(comments) ELSE 0)
          /\ calls' = calls \o <<Call("count", "comments", ok)>>
    /\ pc' = IF cmd.name \in BothCommands THEN "count_posts" ELSE "proc_comments"
    /\ UNCHANGED <<config, comments, posts, cmd, idx, pbar, processed_comments,
                   processed_posts, removed_comments, removed_posts, summary>>

\* a post count after which the posts are processed first
CountPosts_then_posts ==
    /\ pc = "count_posts"
    /\ \E ok \in BOOLEAN :
          /\ total' = total + (IF ok THEN Len(posts) ELSE 0)
          /\ calls' = calls \o <<Call("count", "posts", ok)>>
    /\ pc' = "proc_posts"
    /\ UNCHANGED <<config, comments, posts, cmd, idx, pbar, processed_comments,
                   processed_posts, removed_comments, removed_posts, summary>>

\* _get_post_count: the length of the listing, or 0 when the listing raises
CountPosts ==
    /\ pc = "count_posts"
    /\ \E ok \in BOOLEAN :
          /\ total' = total + (IF ok THEN Len(posts) ELSE 0)
          /\ calls' = calls \o <<Call("count", "posts", ok)>>
    /\ pc' = IF cmd.name \in BothCommands THEN "proc_comments" ELSE "proc_posts"
    /\ UNCHANGED <<config, comments, posts, cmd, idx, pbar, processed_comments,
                   processed_posts, removed_comments, removed_posts, summary>>

\* a failing listing that the command swallows: the loop is skipped and the summary printed
ListingFails_swallowed ==
    /\ pc \in {"proc_comments", "proc_posts"}
    /\ idx = 0
    /\ calls' = calls \o <<Call("listing", IF pc = "proc_comments" THEN "comments" ELSE "posts", FALSE)>>
    /\ pc' = "summarizing"
    /\ UNCHANGED <<config, comments, posts, cmd, idx, total, pbar, processed_comments,
                   processed_posts, removed_comments, removed_posts, summary>>

\* the listing of a processing loop raises on its first page: the exception leaves
\* the command and is caught by main()
ListingFails ==
    /\ pc \in {"proc_comments", "proc_posts"}
    /\ idx = 0
    /\ calls' = calls \o <<Call("listing", IF pc = "proc_comments" THEN "comments" ELSE "posts", FALSE)>>
    /\ pc' = "aborted"
    /\ UNCHANGED <<config, comments, posts, cmd, idx, total, pbar, processed_comments,
                   processed_posts, removed_comments, removed_posts, summary>>

\* one iteration of `for comment in ...comments.new(limit=None)`; an exception that
\* leaves process_comment leaves the command too
CommentStep ==
    /\ pc = "proc_comments"
    /\ idx < Len(comments)
    /\ \E bOk, eOk, dOk \in BOOLEAN :
          LET comment == comments[idx + 1]
              cs == comment_iteration(cmd, comment, bOk, eOk, dOk)
          IN  /\ calls' = calls \o cs
              /\ pbar' = pbar + updates(cs)
              /\ IF propagates(cs)
                 THEN /\ pc' = "aborted"
                      /\ UNCHANGED <<removed_comments, processed_comments, idx>>
                 ELSE /\ removed_comments' =
                            IF selects_comment(cmd, comment) /\ counts_removed_comments(cmd)
                            THEN removed_comments + 1 ELSE removed_comments
                      /\ processed_comments' = processed_comments + 1
                      /\ idx' = idx + 1
                      /\ pc' = pc
    /\ UNCHANGED <<config, comments, posts, cmd, total, processed_posts,
                   removed_posts, summary>>

\* the comment loop ends
CommentsExhausted ==
    /\ pc = "proc_comments"
    /\ idx = Len(comments)
    /\ pc' = IF cmd.name \in BothCommands THEN "proc_posts" ELSE "summarizing"
    /\ idx' = 0
    /\ UNCHANGED <<config, comments, posts, cmd, total, pbar, processed_comments,
                   processed_posts, removed_comments, removed_posts, calls, summary>>

\* one iteration of `for post in ...submissions.new(limit=None)`
PostStep ==
    /\ pc = "proc_posts"
    /\ idx < Len(posts)
    /\ \E bOk, mOk, eOk, dOk \in BOOLEAN :
          LET post == posts[idx + 1]
              cs == post_iteration(cmd, post, bOk, mOk, eOk, dOk)
          IN  /\ calls' = calls \o cs
              /\ pbar' = pbar + updates(cs)
              /\ IF propagates(cs)
                 THEN /\ pc' = "aborted"
                      /\ UNCHANGED <<removed_posts, processed_posts, idx>>
                 ELSE /\ removed_posts' =
                            IF selects_post(cmd, post) /\ counts_removed_posts(cmd)
                            THEN removed_posts + 1 ELSE removed_posts
                      /\ processed_posts' = processed_posts + 1
                      /\ idx' = idx + 1
                      /\ pc' = pc
    /\ UNCHANGED <<config, comments, posts, cmd, total, processed_comments,
                   removed_comments, summary>>

\* the post loop ends
PostsExhausted ==
    /\ pc = "proc_posts"
    /\ idx = Len(posts)
    /\ pc' = "summarizing"
    /\ idx' = 0
    /\ UNCHANGED <<config, comments, posts, cmd, total, pbar, processed_comments,
                   processed_posts, removed_comments, removed_posts, calls, summary>>

\* the numbers of the final print(s); -1 where the command prints no such number
report(c) ==
    CASE c.name = "remove_old_comments" ->
            [processed |-> processed_comments, removed |-> -1]
      [] c.name \in {"remove_negative_karma", "remove_low_engagement"} ->
            [processed |-> processed_comments, removed |-> removed_comments]
      [] c.name = "remove_all_posts" ->
            [processed |-> -1, removed |-> processed_posts]
      [] c.name \in {"remove_old_posts", "remove_low_karma_posts"} ->
            [processed |-> processed_posts, removed |-> removed_posts]
      [] OTHER ->
            [processed |-> processed_comments + processed_posts,
             removed |-> removed_comments + removed_posts]

\* print(f"Completed! ...") and the return of the command
Summarize ==
    /\ pc = "summarizing"
    /\ summary' = <<report(cmd)>>
    /\ pc' = "done"
    /\ UNCHANGED <<config, comments, posts, cmd, idx, total, pbar, processed_comments,
                   processed_posts, removed_comments, removed_posts, calls>>

Next ==
    \/ ToggleDryRun
    \/ StartCommand
    \/ CountComments
    \/ CountPosts
    \/ ListingFails
    \/ CommentStep
    \/ CommentsExhausted
    \/ PostStep
    \/ PostsExhausted
    \/ Summarize

Spec == Init /\ [][Next]_vars

\* the interpreter always takes the next step of the running command: the program is
\* one thread, and every call it makes returns or raises
FairSpec == Spec /\ WF_vars(Next)


-----------------------------------------------------------------------------
(* Reading the record of calls *)

Mutations == {"edit", "delete"}

\* the item with a given id
ItemById(id) == CHOOSE item \in CommentPool \cup PostPool : item.id = id

\* positions of the calls of kind op on item id
CallsOn(op, id) == {k \in DOMAIN calls : calls[k].op = op /\ calls[k].id = id}

\* the items the processing loops have iterated over so far
Visited ==
    {comments[i] : i \in 1..processed_comments} \cup {posts[i] : i \in 1..processed_posts}

\* does the command select the item?
Selects(item) ==
    IF item.kind = "comment" THEN selects_comment(cmd, item) ELSE selects_post(cmd, item)

\* a command is running or has ended
InCommand == pc # "menu"

-----------------------------------------------------------------------------
(* C1: every edit or delete call on an item is preceded, when backup_enabled *)
(* is true, by a backup append for that item that completed.                 *)
BackupBeforeMutation ==
    \A k \in DOMAIN calls :
        calls[k].op \in Mutations =>
            \/ ~config.backup_enabled
            \/ \E j \in 1..(k - 1) :
                  calls[j].op = "backup" /\ calls[j].id = calls[k].id /\ calls[j].ok

\* a comment and a post have been deleted with backup enabled
BackupBeforeMutationWitness ==
    /\ config.backup_enabled
    /\ \E k, j \in DOMAIN calls :
          /\ calls[k].op = "delete" /\ ItemById(calls[k].id).kind = "comment"
          /\ calls[j].op = "delete" /\ ItemById(calls[j].id).kind = "post"

(* C2: when the backup append of an item raises, no edit, delete or sleep is *)
(* issued for that item, the exception is handled by the except branch (it  *)
(* does not leave the handler), and the loop has moved on past the item.    *)
BackupFailureSkipsItem ==
    \A k \in DOMAIN calls :
        (calls[k].op = "backup" /\ ~calls[k].ok) =>
            /\ config.backup_enabled
            /\ \A op \in {"edit", "delete", "sleep"} : CallsOn(op, calls[k].id) = {}
            /\ k < Len(calls)
            /\ calls[k + 1] = Call("logger.error", calls[k].id, TRUE)
            /\ ItemById(calls[k].id) \in Visited
            /\ pc = "aborted" => calls[Len(calls)].op = "listing"

\* a backup append raised and the next item of the listing was then deleted
BackupFailureSkipsItemWitness ==
    \E k, j \in DOMAIN calls :
        /\ calls[k].op = "backup" /\ ~calls[k].ok
        /\ k < j
        /\ calls[j].op = "delete" /\ calls[j].ok /\ calls[j].id # calls[k].id

(* C3: while a command runs with dry_run true, no edit, delete or sleep call *)
(* has been issued.                                                          *)
DryRunIssuesNoMutation ==
    (InCommand /\ config.dry_run) =>
        \A k \in DOMAIN calls : calls[k].op \notin {"edit", "delete", "sleep"}

\* a dry run ended after handling a selected comment and a selected post
DryRunIssuesNoMutationWitness ==
    /\ config.dry_run
    /\ pc = "done"
    /\ \E k, j \in DOMAIN calls :
          /\ calls[k].op = "logger.info" /\ ItemById(calls[k].id).kind = "comment"
          /\ calls[j].op = "logger.info" /\ ItemById(calls[j].id).kind = "post"

(* C4: an item for which should_exclude_content is true is never edited and *)
(* never deleted, whether or not the command selects it.                     *)
ExcludedNeverMutated ==
    \A k \in DOMAIN calls :
        calls[k].op \in Mutations => ~should_exclude_content(ItemById(calls[k].id))

\* a real run ended after visiting a selected item excluded by its subreddit and a
\* selected item excluded by a keyword only
ExcludedNeverMutatedWitness ==
    /\ pc = "done"
    /\ ~config.dry_run
    /\ \E a, b \in Visited :
          /\ Selects(a) /\ a.subreddit \in config.excluded_subs
          /\ Selects(b) /\ b.subreddit \notin config.excluded_subs
          /\ should_exclude_content(b)


(* C5: every item on which an edit or delete call succeeded has exactly one  *)
(* sleep, issued after that call and before any edit or delete on another   *)
(* item, and an item on which no mutation succeeded has no sleep.            *)
SleepAfterEveryMutation ==
    /\ \A k \in DOMAIN calls :
          (calls[k].op \in Mutations /\ calls[k].ok) =>
              \E s \in CallsOn("sleep", calls[k].id) :
                  /\ k < s
                  /\ \A j \in k..s : calls[j].op \in Mutations => calls[j].id = calls[k].id
    /\ \A id \in ItemIds :
          Cardinality(CallsOn("sleep", id)) =
              IF \E k \in DOMAIN calls :
                    calls[k].op \in Mutations /\ calls[k].ok /\ calls[k].id = id
              THEN 1 ELSE 0

\* the items of the listings the command iterates over
RelevantItems ==
    (IF cmd.name \in CommentCommands \cup BothCommands
     THEN {comments[i] : i \in DOMAIN comments} ELSE {})
    \cup (IF cmd.name \in PostCommands \cup BothCommands
          THEN {posts[i] : i \in DOMAIN posts} ELSE {})

\* a visited item was handled by the rules: a selected, non-excluded item went through
\* its handler to the end of the try block or to the except branch, any other item
\* was left alone
Handled(item) ==
    IF Selects(item) /\ ~should_exclude_content(item)
    THEN Cardinality(CallsOn("logger.info", item.id) \cup CallsOn("logger.error", item.id)) = 1
    ELSE \A op \in {"backup", "edit", "delete", "sleep"} : CallsOn(op, item.id) = {}

(* C6: an edit or delete that raises is caught by the except branch of the   *)
(* handler; the command is aborted by nothing but a failing listing, and a  *)
(* command that reaches its summary has visited and handled every item of   *)
(* its listings.                                                             *)
FailureIsolation ==
    /\ \A k \in DOMAIN calls :
          (calls[k].op \in Mutations /\ ~calls[k].ok) =>
              /\ k < Len(calls)
              /\ calls[k + 1] = Call("logger.error", calls[k].id, TRUE)
    /\ pc = "aborted" => calls[Len(calls)].op = "listing"
    /\ pc \in {"summarizing", "done"} => Visited = RelevantItems
    /\ \A item \in Visited : Handled(item)

\* a command ended after a delete raised on one item and a later item was deleted
FailureIsolationWitness ==
    /\ pc = "done"
    /\ \E k, j \in DOMAIN calls :
          /\ calls[k].op = "delete" /\ ~calls[k].ok
          /\ k < j
          /\ calls[j].op = "delete" /\ calls[j].ok /\ calls[j].id # calls[k].id

(* C7: the progress bar has advanced by one unit for every item the          *)
(* processing loops have iterated over, whatever the item's outcome.         *)
ProgressCountsEveryItem ==
    pbar = processed_comments + processed_posts

\* number of items that reached the end of their handler's try block
Retired == Cardinality({k \in DOMAIN calls : calls[k].op = "logger.info"})

(* C8: the removed count a command prints equals the number of items whose   *)
(* outcome was Retired.                                                      *)
ReportedRemovedIsRetired ==
    pc = "done" => (summary[1].removed = -1 \/ summary[1].removed = Retired)

\* the primary text of an item
primary_text(item) == IF item.kind = "post" THEN item.selftext ELSE item.body

\* the visited items that went into a real retirement: selected, not excluded, not a
\* dry run, backup not raised
InRetirement(item) ==
    /\ item \in Visited
    /\ Selects(item)
    /\ ~should_exclude_content(item)
    /\ ~config.dry_run
    /\ \A k \in CallsOn("backup", item.id) : calls[k].ok

(* C9 as stated: in a real retirement, edit is called iff the primary text   *)
(* is non-empty, and delete is called exactly once.                          *)
EditIffTextThenOneDelete ==
    \A item \in CommentPool \cup PostPool :
        InRetirement(item) =>
            /\ Cardinality(CallsOn("edit", item.id)) =
                  (IF primary_text(item) # <<>> THEN 1 ELSE 0)
            /\ Cardinality(CallsOn("delete", item.id)) = 1

(* C9 as amended: in a real retirement, edit is called once on every comment *)
(* and on a post iff its self-text is non-empty; delete is called once when  *)
(* no edit call raised and not at all when the edit raised.                  *)
EditThenDeleteUnlessEditRaised ==
    \A item \in CommentPool \cup PostPool :
        InRetirement(item) =>
            /\ Cardinality(CallsOn("edit", item.id)) =
                  (IF item.kind = "comment" \/ item.selftext # <<>> THEN 1 ELSE 0)
            /\ Cardinality(CallsOn("delete", item.id)) =
                  (IF \E k \in CallsOn("edit", item.id) : ~calls[k].ok THEN 0 ELSE 1)

\* a command ended after deleting a post with empty self-text without an edit,
\* editing and deleting a comment with an empty body, and an edit that raised on a
\* third item, which was then not deleted
EditThenDeleteUnlessEditRaisedWitness ==
    /\ pc = "done"
    /\ \E p, c, q \in Visited :
          /\ p.kind = "post" /\ p.selftext = <<>> /\ InRetirement(p)
          /\ CallsOn("edit", p.id) = {} /\ CallsOn("delete", p.id) # {}
          /\ c.kind = "comment" /\ c.body = <<>> /\ InRetirement(c)
          /\ CallsOn("edit", c.id) # {} /\ CallsOn("delete", c.id) # {}
          /\ InRetirement(q)
          /\ \E k \in CallsOn("edit", q.id) : ~calls[k].ok
          /\ CallsOn("delete", q.id) = {}

(* C10: within a command, edit is called at most once and delete at most     *)
(* once on any item.                                                         *)
AtMostOnceMutation ==
    \A id \in ItemIds : \A op \in Mutations : Cardinality(CallsOn(op, id)) <= 1

\* a command over comments and posts ended after deleting a comment and a post, with
\* a delete that raised on a third item
AtMostOnceMutationWitness ==
    /\ pc = "done"
    /\ cmd.name \in BothCommands
    /\ \E a, b, c \in Visited :
          /\ a.kind = "comment" /\ \E k \in CallsOn("delete", a.id) : calls[k].ok
          /\ b.kind = "post" /\ \E k \in CallsOn("delete", b.id) : calls[k].ok
          /\ \E k \in CallsOn("delete", c.id) : ~calls[k].ok

\* the kind of the items of a listing
ListingKind(name) == IF name = "comments" THEN "comment" ELSE "post"

\* the calls that touch an item or the local stores
ItemOps == {"backup", "download_media", "requests.get", "media.write", "edit", "delete", "sleep"}

\* the counting pass is over
CountingOver == pc \in {"proc_comments", "proc_posts", "summarizing", "done", "aborted"}

(* C11 as stated: once a listing has failed, in the counting pass or at the  *)
(* start of a processing loop, the command processes nothing: no item is    *)
(* backed up, edited or deleted.                                             *)
SourceUnavailableAborts ==
    \A k \in DOMAIN calls :
        (calls[k].op \in {"count", "listing"} /\ ~calls[k].ok) =>
            \A j \in DOMAIN calls : calls[j].op \notin {"backup", "edit", "delete"}

(* C11 as amended: a listing that fails at the start of a processing loop    *)
(* ends the command at once, with no summary and with no item of that        *)
(* listing backed up, downloaded, edited or deleted; a listing that fails    *)
(* in the counting pass only makes its count 0 and the command goes on.      *)
ProcessingListingFailureAborts ==
    /\ \A k \in DOMAIN calls :
          calls[k].op = "listing" =>
              /\ k = Len(calls)
              /\ pc = "aborted"
              /\ summary = <<>>
              /\ \A j \in DOMAIN calls :
                    calls[j].op \in ItemOps =>
                        ItemById(calls[j].id).kind # ListingKind(calls[k].id)
    /\ \A k \in DOMAIN calls :
          (calls[k].op = "count" /\ ~calls[k].ok) =>
              /\ pc # "menu"
              /\ (CountingOver /\ \A j \in DOMAIN calls : calls[j].op = "count" => ~calls[j].ok)
                    => total = 0

\* the comment count failed, the comments were processed all the same and one was
\* deleted, then the listing of the posts failed and ended the command
ProcessingListingFailureAbortsWitness ==
    /\ pc = "aborted"
    /\ cmd.name \in BothCommands
    /\ posts # <<>>
    /\ calls[Len(calls)] = Call("listing", "posts", FALSE)
    /\ \E k, j \in DOMAIN calls :
          /\ calls[k] = Call("count", "comments", FALSE)
          /\ calls[j].op = "delete" /\ calls[j].ok

\* what _get_comment_count / _get_post_count returned, once called
CountOf(name) ==
    IF \E k \in DOMAIN calls : calls[k] = Call("count", name, TRUE)
    THEN (IF name = "comments" THEN Len(comments) ELSE Len(posts))
    ELSE 0

\* the positions of the calls made for an item of the given kind
CallsForKind(kind) ==
    {k \in DOMAIN calls : calls[k].id \in ItemIds /\ ItemById(calls[k].id).kind = kind}

(* C12: a command counts, then processes, then prints its summary: every     *)
(* counting traversal comes before the first call made for an item, the     *)
(* summary exists only at the end, a command over comments and posts        *)
(* finishes the comments before the first post, and the total of the        *)
(* progress bar is the comment count plus the post count.                    *)
CountThenProcessThenSummarize ==
    /\ pc = "menu" => calls = <<>>
    /\ pc \in {"count_comments", "count_posts"} =>
          \A k \in DOMAIN calls : calls[k].op = "count"
    /\ \A k, j \in DOMAIN calls : (k < j /\ calls[j].op = "count") => calls[k].op = "count"
    /\ CountingOver =>
          /\ Cardinality({k \in DOMAIN calls : calls[k].op = "count"}) =
                (IF cmd.name \in BothCommands THEN 2 ELSE 1)
          /\ total = CountOf("comments") + CountOf("posts")
    /\ \A k \in CallsForKind("post") :
          /\ \A j \in CallsForKind("comment") : j < k
          /\ cmd.name \in BothCommands => processed_comments = Len(comments)
    /\ (summary # <<>>) <=> (pc = "done")
    /\ pc \in {"summarizing", "done"} =>
          /\ cmd.name \notin PostCommands => processed_comments = Len(comments)
          /\ cmd.name \notin CommentCommands => processed_posts = Len(posts)

\* a command over comments and posts ended after counting both listings and deleting
\* a comment and then a post
CountThenProcessThenSummarizeWitness ==
    /\ pc = "done"
    /\ cmd.name \in BothCommands
    /\ total = Len(comments) + Len(posts)
    /\ \E k, j \in DOMAIN calls :
          /\ calls[k].op = "delete" /\ calls[k].ok /\ ItemById(calls[k].id).kind = "comment"
          /\ calls[j].op = "delete" /\ calls[j].ok /\ ItemById(calls[j].id).kind = "post"

\* the items the processing loops have iterated over so far, in the order of the loops
VisitedSeq ==
    SubSeq(comments, 1, processed_comments) \o SubSeq(posts, 1, processed_posts)

\* the item reaches the try block of process_comment / process_post
IsDue(item) == Selects(item) /\ ~should_exclude_content(item)

IsBackup(call) == call.op = "backup"

\* the ids a sequence of calls or of items is about
Ids(s) == [i \in DOMAIN s |-> s[i].id]

(* C13: with backup_enabled, the appends to the backup file are one per      *)
(* selected, non-excluded item met so far, in the order of the stream; this  *)
(* sequence is fixed by the stream, the command and the exclusions alone, so *)
(* a dry run and a real run write the same records.  With backup disabled    *)
(* nothing is appended.                                                      *)
OneBackupRecordPerDueItem ==
    Ids(SelectSeq(calls, IsBackup)) =
        (IF config.backup_enabled THEN Ids(SelectSeq(VisitedSeq, IsDue)) ELSE <<>>)

\* a dry run with backup enabled ended after appending the record of a comment and
\* the record of a post and passing over an item that got none
OneBackupRecordPerDueItemWitness ==
    /\ pc = "done"
    /\ config.dry_run /\ config.backup_enabled
    /\ \E k, j \in DOMAIN calls :
          /\ calls[k].op = "backup" /\ calls[k].ok /\ ItemById(calls[k].id).kind = "comment"
          /\ calls[j].op = "backup" /\ calls[j].ok /\ ItemById(calls[j].id).kind = "post"
    /\ \E item \in Visited : ~IsDue(item)

(* C14: download_media is called only for a post, after the post's backup    *)
(* record (when backup is enabled) and before any edit or delete of it; a    *)
(* download that fails is followed at once by the next step of the post      *)
(* (its edit or delete, or in a dry run its "Processed" log line), the post  *)
(* is logged as failed only if its own edit or delete raised, and the        *)
(* command does not stop.                                                    *)
MediaArchivalIsBestEffort ==
    /\ \A k \in DOMAIN calls :
          calls[k].op = "download_media" =>
              /\ ItemById(calls[k].id).kind = "post"
              /\ config.backup_enabled =>
                    \E j \in 1..(k - 1) : calls[j] = Call("backup", calls[k].id, TRUE)
              /\ \A j \in 1..(k - 1) :
                    ~(calls[j].op \in Mutations /\ calls[j].id = calls[k].id)
    /\ \A k \in DOMAIN calls :
          (calls[k].op = "requests.get" /\ ~calls[k].ok) =>
              LET post == ItemById(calls[k].id)
              IN  /\ pc # "aborted"
                  /\ k < Len(calls)
                  /\ calls[k + 1].id = post.id
                  /\ calls[k + 1].op =
                        (IF config.dry_run THEN "logger.info"
                         ELSE IF post.selftext # <<>> THEN "edit" ELSE "delete")
                  /\ CallsOn("logger.error", post.id) # {} =>
                        \E j \in DOMAIN calls :
                            /\ j > k
                            /\ calls[j].op \in Mutations /\ calls[j].id = post.id
                            /\ ~calls[j].ok

\* a real run ended with a post whose download failed after its backup and which was
\* then edited, deleted and logged as processed
MediaArchivalIsBestEffortWitness ==
    /\ pc = "done"
    /\ config.backup_enabled
    /\ \E k \in DOMAIN calls :
          /\ k + 4 <= Len(calls)
          /\ calls[k].op = "requests.get" /\ ~calls[k].ok
          /\ calls[k + 1] = Call("edit", calls[k].id, TRUE)
          /\ calls[k + 2] = Call("delete", calls[k].id, TRUE)
          /\ calls[k + 4] = Call("logger.info", calls[k].id, TRUE)
          /\ CallsOn("backup", calls[k].id) # {}

(* C15: an item that the command does not select, or that the exclusion      *)
(* lists cover, is left untouched: no backup append, no media download, no   *)
(* edit, no delete and no sleep is ever made for it.                         *)
SkippedItemUntouched ==
    \A k \in DOMAIN calls :
        calls[k].op \in ItemOps => IsDue(ItemById(calls[k].id))

\* a command ended after passing over an item it does not select and a selected item
\* that is excluded, and after deleting a third one
SkippedItemUntouchedWitness ==
    /\ pc = "done"
    /\ \E a, b \in Visited :
          /\ ~Selects(a)
          /\ Selects(b) /\ should_exclude_content(b)
    /\ \E k \in DOMAIN calls : calls[k].op = "delete" /\ calls[k].ok

AgeCommands == {"remove_old_comments", "remove_old_posts"}

\* the loop handed the item to process_comment / process_post: the else branch of the
\* loop is the only place that updates the bar without a log line for the item
TreatedAsSelected(item) ==
    \/ CallsOn("pbar.update", item.id) = {}
    \/ CallsOn("logger.info", item.id) \cup CallsOn("logger.error", item.id) # {}

\* the age of an item in days
age(item) == NowUtc - item.created_utc

(* C16 as stated: remove_old_comments(days) and remove_old_posts(days)       *)
(* select an item if and only if now - created >= days, so an item whose age *)
(* is exactly `days` is selected.                                            *)
AgeAtLeastDaysSelected ==
    cmd.name \in AgeCommands =>
        \A item \in Visited : TreatedAsSelected(item) <=> age(item) >= cmd.param

(* C16 as amended: remove_old_comments(days) and remove_old_posts(days)      *)
(* select an item if and only if now - created > days; an item whose age is  *)
(* exactly `days` is not selected.                                           *)
OlderThanDaysSelected ==
    cmd.name \in AgeCommands =>
        \A item \in Visited : TreatedAsSelected(item) <=> age(item) > cmd.param

\* remove_old_comments ended after passing over a comment of age exactly `days` and
\* deleting an older one
OlderThanDaysSelectedWitness ==
    /\ pc = "done"
    /\ cmd.name = "remove_old_comments"
    /\ \E a, b \in Visited :
          /\ age(a) = cmd.param /\ ~TreatedAsSelected(a)
          /\ CallsOn("edit", a.id) \cup CallsOn("delete", a.id) = {}
          /\ age(b) > cmd.param
          /\ \E k \in CallsOn("delete", b.id) : calls[k].ok

\* the command returned after its loops met every item of its streams
ReachedDone == pc = "done" /\ Visited = RelevantItems

\* the command was left by the failure of the listing itself, not of an item
StreamFailed ==
    pc = "aborted" /\ calls # <<>> /\ calls[Len(calls)].op = "listing"

(* C17: whatever backup, download, edit and delete calls fail, a command     *)
(* that has started eventually returns after its loops met every item of    *)
(* its streams; the only other end is the failure of the listing itself.     *)
CommandTerminates == InCommand ~> (ReachedDone \/ StreamFailed)

\* a command returned after meeting three items, with a backup, a download, an edit
\* and a delete that failed on the way
CommandTerminatesWitness ==
    /\ ReachedDone
    /\ Cardinality(Visited) = MaxItems
    /\ \A op \in {"backup", "requests.get", "edit", "delete"} :
          \E k \in DOMAIN calls : calls[k].op = op /\ ~calls[k].ok

Counting == pc \in {"count_comments", "count_posts"}

\* what is done for an item besides moving the progress bar
EffectsOn(item) ==
    SelectSeq(calls, LAMBDA call : call.id = item.id /\ call.op # "pbar.update")

\* the ways a download can go for an item
MediaOutcomes(item) ==
    IF item.kind = "comment" THEN {<<>>}
    ELSE IF has_media_extension(item.url)
         THEN {<<Call("download_media", item.id, TRUE), Call("requests.get", item.id, TRUE),
                 Call("media.write", item.id, TRUE)>>,
               <<Call("download_media", item.id, TRUE), Call("requests.get", item.id, FALSE)>>}
         ELSE {<<Call("download_media", item.id, TRUE)>>}

\* the ways the rest of the try block can go for an item
RetirementOutcomes(item) ==
    LET failed == <<Call("logger.error", item.id, TRUE)>>
        edited == IF item.kind = "comment" \/ item.selftext # <<>>
                  THEN <<Call("edit", item.id, TRUE)>> ELSE <<>>
    IN  IF config.dry_run THEN {<<Call("logger.info", item.id, TRUE)>>}
        ELSE (IF edited # <<>> THEN {<<Call("edit", item.id, FALSE)>> \o failed} ELSE {})
             \cup {edited \o <<Call("delete", item.id, FALSE)>> \o failed,
                   edited \o <<Call("delete", item.id, TRUE), Call("sleep", item.id, TRUE),
                               Call("logger.info", item.id, TRUE)>>}

\* every outcome of an item, written without the total of the progress bar
Outcomes(item) ==
    IF ~IsDue(item) THEN {<<>>}
    ELSE (IF config.backup_enabled
          THEN {<<Call("backup", item.id, FALSE), Call("logger.error", item.id, TRUE)>>}
          ELSE {})
         \cup {(IF config.backup_enabled THEN <<Call("backup", item.id, TRUE)>> ELSE <<>>)
               \o m \o r : m \in MediaOutcomes(item), r \in RetirementOutcomes(item)}

\* a step of the counting pass changes the configuration and the listings in nothing
\* and makes no call but the counting traversal
CountingStepIsPure ==
    Counting =>
        /\ config' = config /\ comments' = comments /\ posts' = posts
        /\ Len(calls') = Len(calls) + 1
        /\ SubSeq(calls', 1, Len(calls)) = calls
        /\ calls'[Len(calls')].op = "count"
        /\ total' \in {total, total + Len(comments), total + Len(posts)}

\* what is done for an item met by a loop is one of its outcomes, whatever the total
OutcomeIgnoresTotal ==
    \A item \in Visited : EffectsOn(item) \in Outcomes(item)

(* C18: the counting pass only produces the total: its steps leave the       *)
(* configuration and the listings alone and make no backup, download, edit,  *)
(* delete or sleep call; and what Processing does for an item, apart from    *)
(* moving the progress bar, does not depend on the total.                    *)
CountingOnlyProducesTotal ==
    /\ [][CountingStepIsPure]_vars
    /\ [](Counting => \A k \in DOMAIN calls : calls[k].op = "count")
    /\ []OutcomeIgnoresTotal

\* a command whose count failed on a non-empty listing ended with total 0 after
\* deleting an item and logging it as processed
CountingOnlyProducesTotalWitness ==
    /\ pc = "done"
    /\ total = 0
    /\ \E item \in Visited :
          /\ \E k \in CallsOn("delete", item.id) : calls[k].ok
          /\ CallsOn("logger.info", item.id) # {}
          /\ CallsOn("pbar.update", item.id) = {}

(* C19: for an item with non-empty text, delete is called only directly      *)
(* after the edit of the same item returned; an edit that raises is followed *)
(* by no delete of that item; and after a delete that raises nothing more is *)
(* done to the item than logging the error, so the overwritten text stays.   *)
RedactThenDelete ==
    \A k \in DOMAIN calls :
        LET id == calls[k].id IN
        /\ (calls[k].op = "delete" /\ primary_text(ItemById(id)) # <<>>) =>
              /\ k > 1
              /\ calls[k - 1] = Call("edit", id, TRUE)
        /\ (calls[k].op = "edit" /\ ~calls[k].ok) => CallsOn("delete", id) = {}
        /\ (calls[k].op = "delete" /\ ~calls[k].ok) =>
              \A j \in DOMAIN calls :
                  (j > k /\ calls[j].id = id) => calls[j].op \in {"logger.error", "pbar.update"}

\* a real run ended with one item overwritten whose delete raised and another item
\* whose edit raised
RedactThenDeleteWitness ==
    /\ pc = "done"
    /\ \E k, j \in DOMAIN calls :
          /\ k > 1
          /\ calls[k].op = "delete" /\ ~calls[k].ok
          /\ primary_text(ItemById(calls[k].id)) # <<>>
          /\ calls[k - 1] = Call("edit", calls[k].id, TRUE)
          /\ calls[j].op = "edit" /\ ~calls[j].ok
          /\ primary_text(ItemById(calls[j].id)) # <<>>

(* C20: download_media is invoked once for every selected, non-excluded post *)
(* whose backup did not raise, and the request is made once when the url has *)
(* a media extension, in a dry run exactly as in a real run: the number of   *)
(* downloads does not depend on dry_run, so a dry run can write to the media *)
(* directory.                                                                *)
DryRunStillDownloadsMedia ==
    \A post \in Visited :
        (post.kind = "post" /\ IsDue(post)) =>
            LET reached == \A k \in CallsOn("backup", post.id) : calls[k].ok
            IN  /\ Cardinality(CallsOn("download_media", post.id)) = (IF reached THEN 1 ELSE 0)
                /\ Cardinality(CallsOn("requests.get", post.id)) =
                      (IF reached /\ has_media_extension(post.url) THEN 1 ELSE 0)

\* a dry run ended after writing a media file and without any edit or delete
DryRunStillDownloadsMediaWitness ==
    /\ pc = "done"
    /\ config.dry_run
    /\ \E k \in DOMAIN calls : calls[k].op = "media.write"
    /\ \A k \in DOMAIN calls : calls[k].op \notin Mutations

====
